---- MODULE Spec2Model ----
(***************************************************************************)
(* qtizer: k-means colour quantisation.                                    *)
(*                                                                         *)
(* The model follows src/src/kmeans.rs (Context::new, Context::k_means)    *)
(* and the Kmeansable implementation for Rgba<u8> in src/src/colors.rs.    *)
(*                                                                         *)
(* Conventions                                                             *)
(*  - A Vec is a function whose domain is 0 .. len-1, so that the indices  *)
(*    of the model are the indices of the code.                            *)
(*  - An Rgba value is a 4-tuple; channel c of the code is component c+1.  *)
(*  - A u32 is a pair <<hi, lo>> of 16-bit limbs (value hi * 65536 + lo),  *)
(*    so that the 32-bit width is kept: TLC's own integers are narrower    *)
(*    than 2^32.  A usize count is a pair <<hi, lo>> whose hi limb is not  *)
(*    reduced (the model never comes near 2^64).                           *)
(*  - The f64 returned by distance is represented by its radicand, the     *)
(*    integer sum of the squared channel differences (at most 4 * 255^2).  *)
(*    The squares and their sum are exact in f64, sqrt is correctly        *)
(*    rounded and monotone, and two different radicands below 2^20 have    *)
(*    square roots further apart than one ulp, so `x < y` on the f64       *)
(*    values is `<` on the radicands; 2.0 * sqrt(r) is exactly the f64     *)
(*    sqrt(4 r), so `x >= 2.0 * y` is `rx >= 4 * ry`.                      *)
(***************************************************************************)
EXTENDS Integers, Sequences, FiniteSets, TLC

\* ---------------------------------------------------------------- bounds
MaxPoints == 4
MaxIterations == 2
MaxSeed == 3
MaxAccSteps == 3

\* ------------------------------------------------------- program constants
\* one u32 is two limbs of 16 bits
Limb == 65536
\* `as u8` keeps the low 8 bits
U8Modulus == 256

\* The colours the inputs are drawn from (3-channel colours decoded as opaque
\* RGBA): two dark and two light neighbours.
Black == <<0, 0, 0, 255>>
NearBlack == <<0, 0, 1, 255>>
NearWhite == <<255, 255, 254, 255>>
White == <<255, 255, 255, 255>>
Palette == {Black, NearBlack, NearWhite, White}

\* Colours on a line, for the pruning test: the third is just inside twice the
\* distance of the second from the first, the fourth exactly at it.
Reds == {<<0, 0, 0, 255>>, <<100, 0, 0, 255>>, <<199, 0, 0, 255>>, <<200, 0, 0, 255>>}

\* Uniform image regions, in units of 65536 pixels, for the accumulation loop.
BlockCounts == {1, 257}

VARIABLES
    seed,         \* the seed given to Context::new
    rng,          \* Context.rng: the state of the generator
    data,         \* k_means argument: the points
    k,            \* k_means argument: the number of clusters
    iterations,   \* k_means argument: the number of rounds
    pc,           \* position in k_means
    i,            \* the outer loop variable of k_means (rounds completed)
    assignments,  \* local of k_means
    clusters,     \* local of k_means
    counts,       \* local of the update pass (as left by the last pass)
    sums,         \* local of the update pass (as left by the last pass)
    history,      \* ghost: the (clusters, assignments) after seeding and each pass
    runNo,        \* ghost: 1 for the first call, 2 for the call that repeats it
    fresh,        \* ghost: the second call runs on a context made by Context::new
    history1,     \* ghost: the history of the first call
    wrapped       \* ghost: some u32 addition of a release build has wrapped

vars == <<seed, rng, data, k, iterations, pc, i, assignments, clusters, counts,
          sums, history, runNo, fresh, history1, wrapped>>

\* ------------------------------------------------------------ vectors
Len0(v) == Cardinality(DOMAIN v)
EmptyVec == [x \in {} |-> 0]
Min(a, b) == IF a <= b THEN a ELSE b
Max(a, b) == IF a >= b THEN a ELSE b
Channels == 1..4

\* ------------------------------------------------------------ u32 / usize
ZeroU32 == <<0, 0>>
ZeroCount == <<0, 0>>

\* u32 + (h * 65536 + l), wrapping; a u8 operand widened by `as u32` is h = 0
WrappingAdd(s, h, l) ==
    LET lo == s[2] + l
        hi == s[1] + h + (lo \div Limb)
    IN <<hi % Limb, lo % Limb>>

\* the same addition leaves the range of u32
AddOverflows(s, h, l) == s[1] + h + ((s[2] + l) \div Limb) >= Limb

\* usize += 1
Increment(c) ==
    IF c[2] + 1 = Limb THEN <<c[1] + 1, 0>> ELSE <<c[1], c[2] + 1>>

\* `count as u32`: the low 32 bits
AsU32(c) == <<c[1] % Limb, c[2]>>

\* q * c <= s for a small q and u32 values c, s
MulLe(q, c, s) ==
    LET lo == q * c[2]
        hi == q * c[1] + (lo \div Limb)
    IN \/ hi < s[1]
       \/ hi = s[1] /\ lo % Limb <= s[2]

\* a division that rounds to the nearest integer instead of truncating
DivU32Rounding(s, c) ==
    (2 * (s[1] * Limb + s[2]) + (c[1] * Limb + c[2])) \div (2 * (c[1] * Limb + c[2]))

\* u32 / u32, truncating.  Operands below 2^31 are divided as integers.  For
\* larger ones the quotient is looked for in 0 .. 255, which holds it whenever
\* s <= 255 * c (a sum of c values of u8, wrapped or not); TLC stops with an
\* error for any other operands.
DivU32(s, c) ==
    IF s[1] < Limb \div 2 /\ c[1] < Limb \div 2
    THEN (s[1] * Limb + s[2]) \div (c[1] * Limb + c[2])
    ELSE CHOOSE q \in 0..(U8Modulus - 1) : MulLe(q, c, s) /\ ~MulLe(q + 1, c, s)

\* --------------------------------------------------------- Kmeansable
zero == [c \in Channels |-> ZeroU32]

distance(self, other) ==
    LET d(c) == self[c] - other[c]
    IN d(1) * d(1) + d(2) * d(2) + d(3) * d(3) + d(4) * d(4)

add(sum, other) == [c \in Channels |-> WrappingAdd(sum[c], 0, other[c])]

addOverflows(sum, other) == \E c \in Channels : AddOverflows(sum[c], 0, other[c])

\* div panics: the explicit check, or the division by a count narrowed to 0
divPanics(count) == count = ZeroCount \/ AsU32(count) = ZeroU32

div(sum, count) ==
    <<DivU32(sum[1], AsU32(count)) % U8Modulus,
      DivU32(sum[2], AsU32(count)) % U8Modulus,
      DivU32(sum[3], AsU32(count)) % U8Modulus,
      DivU32(sum[4], AsU32(count)) % U8Modulus>>

\* --------------------------------------------------------- the generator
\* SmallRng and choose_multiple are the rand crate's.  What k_means relies on
\* is kept: the state is a function of the seed, a draw is a function of the
\* state and advances it, and the draw is min(amount, len) elements at
\* distinct indices, in any order.  The draw is a partial Fisher-Yates shuffle
\* that takes the digits of the state.
seed_from_u64(s) == s

RemoveAt(pool, j) == [x \in 1..(Len(pool) - 1) |-> IF x < j THEN pool[x] ELSE pool[x + 1]]

RECURSIVE Sample(_, _, _)
Sample(r, pool, amount) ==
    IF amount = 0 THEN [picked |-> <<>>, rng |-> r]
    ELSE LET j == (r % Len(pool)) + 1
             rest == Sample(r \div Len(pool), RemoveAt(pool, j), amount - 1)
         IN [picked |-> <<pool[j]>> \o rest.picked, rng |-> rest.rng]

\* a draw of one element too few
choose_multiple_short(r, slice, amount) ==
    LET n == Len0(slice)
        m == Max(Min(amount, n) - 1, 0)
        s == Sample(r, [x \in 1..n |-> x - 1], m)
    IN [items |-> [c \in 0..(m - 1) |-> slice[s.picked[c + 1]]], rng |-> s.rng]

\* a draw with replacement: every element from the whole slice
choose_multiple_repeating(r, slice, amount) ==
    LET n == Len0(slice)
        m == Min(amount, n)
    IN [items |-> [c \in 0..(m - 1) |-> slice[(r + c * c) % n]], rng |-> r \div (n + 1)]

choose_multiple(r, slice, amount) ==
    LET n == Len0(slice)
        m == Min(amount, n)
        s == Sample(r, [x \in 1..n |-> x - 1], m)
    IN [items |-> [c \in 0..(m - 1) |-> slice[s.picked[c + 1]]], rng |-> s.rng]

\* ------------------------------------------------------ assignment pass
\* lines 61-67: only the entries with a < b are set, the others stay 0.0
cluster_distances(cl, kk) ==
    [a \in 0..(kk - 1) |-> [b \in 0..(kk - 1) |->
        IF a < b THEN distance(cl[a], cl[b]) ELSE 0]]

\* the pruning test without its factor 2
TooFarNoFactor(cd, closest_dist) == cd >= closest_dist

\* line 92: cluster_distances[a][b] >= 2.0 * closest_dist, on radicands
TooFar(cd, closest_dist) == cd >= 4 * closest_dist

\* the comparison the wrong way round
Farther(dist, closest_dist) == dist > closest_dist

\* line 99
Closer(dist, closest_dist) == dist < closest_dist

\* lines 89-103: the scan of the centers j .. k-1 for one point
RECURSIVE Scan(_, _, _, _, _, _, _)
Scan(point, cl, cd, kk, j, closest_idx, closest_dist) ==
    IF j >= kk THEN closest_idx
    ELSE LET a == Min(closest_idx, j)
             b == Max(closest_idx, j)
         IN IF TooFar(cd[a][b], closest_dist)
            THEN Scan(point, cl, cd, kk, j + 1, closest_idx, closest_dist)
            ELSE LET dist == distance(cl[j], point)
                 IN IF Closer(dist, closest_dist)
                    THEN Scan(point, cl, cd, kk, j + 1, j, dist)
                    ELSE Scan(point, cl, cd, kk, j + 1, closest_idx, closest_dist)

\* lines 71-105 for one point
Nearest(point, cl, cd, kk) == Scan(point, cl, cd, kk, 1, 0, distance(cl[0], point))

\* an index out of the bounds of `clusters` in lines 62-67 or in line 72
AssignPanics(cl, kk, d) ==
    \/ \E a \in 0..(kk - 1) : \E b \in (a + 1)..(kk - 1) :
          a \notin DOMAIN cl \/ b \notin DOMAIN cl
    \/ Len0(d) >= 1 /\ 0 \notin DOMAIN cl

\* ---------------------------------------------------------- update pass
\* an update without the test for an empty cluster
NonEmptyAlways(count) == TRUE

\* line 122
NonEmpty(count) == count # ZeroCount

\* lines 115-119: the points idx .. len-1 added to the accumulators `acc`
RECURSIVE Accumulate(_, _, _, _)
Accumulate(d, asg, idx, acc) ==
    IF idx \notin DOMAIN d THEN acc
    ELSE Accumulate(d, asg, idx + 1,
            [counts |-> [acc.counts EXCEPT ![asg[idx]] = Increment(@)],
             sums |-> [acc.sums EXCEPT ![asg[idx]] = add(@, d[idx])],
             overflow |-> acc.overflow \/ addOverflows(acc.sums[asg[idx]], d[idx])])

\* lines 112-119: fresh accumulators, then every point added to its cluster's
Accumulated(d, asg, kk) ==
    Accumulate(d, asg, 0,
        [counts |-> [c \in 0..(kk - 1) |-> ZeroCount],
         sums |-> [c \in 0..(kk - 1) |-> zero],
         overflow |-> FALSE])

\* line 117: counts[cluster_idx] out of bounds
AccumulatePanics(asg, kk) == \E p \in DOMAIN asg : asg[p] \notin 0..(kk - 1)

\* lines 121-125
Moved(cl, acc, kk) ==
    [c \in DOMAIN cl |->
        IF c < kk /\ NonEmpty(acc.counts[c])
        THEN div(acc.sums[c], acc.counts[c])
        ELSE cl[c]]

\* lines 121-125 panic: div on a zero count, or clusters[i] out of bounds
MovePanics(cl, acc, kk) ==
    \E c \in 0..(kk - 1) :
        NonEmpty(acc.counts[c]) /\ (divPanics(acc.counts[c]) \/ c \notin DOMAIN cl)

\* a loop that also stops once a round has changed nothing
LoopContinuesUntilStable(round, budget) ==
    /\ round < budget
    /\ ~(/\ Len(history) >= 3
         /\ history[Len(history)].clusters = history[Len(history) - 2].clusters
         /\ history[Len(history)].assignments = history[Len(history) - 2].assignments)

\* line 50
LoopContinues(round, budget) == round < budget

\* ---------------------------------------------------------------- ghosts
Entry(kind, cl, asg) == [kind |-> kind, clusters |-> cl, assignments |-> asg]

\* --------------------------------------------------------------- actions
\* Context::new(seed), and a call k_means(data, k, iterations) about to start
Called(colours) ==
    /\ seed \in 0..MaxSeed
    /\ rng = seed_from_u64(seed)
    /\ data \in UNION {[0..(n - 1) -> colours] : n \in 0..MaxPoints}
    /\ k \in 0..(MaxPoints + 1)
    /\ iterations \in 0..MaxIterations
    /\ pc = "called"
    /\ i = 0
    /\ assignments = EmptyVec
    /\ clusters = EmptyVec
    /\ counts = EmptyVec
    /\ sums = EmptyVec
    /\ history = <<>>
    /\ runNo = 1
    /\ fresh = TRUE
    /\ history1 = <<>>
    /\ wrapped = FALSE

\* the calls on points of the palette, valid or not
Init == Called(Palette)

\* lines 41-45
Seed ==
    /\ pc = "called"
    /\ LET drawn == choose_multiple(rng, data, k)
       IN /\ assignments' = [p \in DOMAIN data |-> 0]
          /\ clusters' = drawn.items
          /\ rng' = drawn.rng
          /\ history' = <<Entry("seed", drawn.items, [p \in DOMAIN data |-> 0])>>
    /\ i' = 0
    /\ pc' = "loop"
    /\ UNCHANGED <<seed, data, k, iterations, counts, sums, runNo, fresh, history1, wrapped>>

\* lines 59-106
AssignPass ==
    /\ pc = "loop"
    /\ LoopContinues(i, iterations)
    /\ IF AssignPanics(clusters, k, data)
       THEN /\ pc' = "panicked"
            /\ UNCHANGED <<assignments, history>>
       ELSE LET cd == cluster_distances(clusters, k)
                asg == [p \in DOMAIN data |-> Nearest(data[p], clusters, cd, k)]
            IN /\ assignments' = asg
               /\ history' = Append(history, Entry("assign", clusters, asg))
               /\ pc' = "update"
    /\ UNCHANGED <<seed, rng, data, k, iterations, i, clusters, counts, sums,
                   runNo, fresh, history1, wrapped>>

\* lines 111-125.  An overflowing u32 addition panics in a build with overflow
\* checks and wraps in one without: both outcomes are kept.
UpdatePass ==
    /\ pc = "update"
    /\ IF AccumulatePanics(assignments, k)
       THEN /\ pc' = "panicked"
            /\ UNCHANGED <<clusters, counts, sums, history, i, wrapped>>
       ELSE LET acc == Accumulated(data, assignments, k)
            IN IF MovePanics(clusters, acc, k)
               THEN /\ pc' = "panicked"
                    /\ UNCHANGED <<clusters, counts, sums, history, i, wrapped>>
               ELSE /\ \E checked \in IF acc.overflow THEN BOOLEAN ELSE {FALSE} :
                         IF checked
                         THEN /\ pc' = "panicked"
                              /\ UNCHANGED <<clusters, counts, sums, history, i, wrapped>>
                         ELSE /\ clusters' = Moved(clusters, acc, k)
                              /\ counts' = acc.counts
                              /\ sums' = acc.sums
                              /\ wrapped' = (wrapped \/ acc.overflow)
                              /\ history' = Append(history,
                                     Entry("update", clusters', assignments))
                              /\ i' = i + 1
                              /\ pc' = "loop"
    /\ UNCHANGED <<seed, rng, data, k, iterations, assignments, runNo, fresh, history1>>

\* lines 128-131
Return ==
    /\ pc = "loop"
    /\ ~LoopContinues(i, iterations)
    /\ pc' = "done"
    /\ UNCHANGED <<seed, rng, data, k, iterations, i, assignments, clusters, counts,
                   sums, history, runNo, fresh, history1, wrapped>>

Next == Seed \/ AssignPass \/ UpdatePass \/ Return

Spec == Init /\ [][Next]_vars

\* the valid calls on points of the line
InitScan == Called(Reds) /\ k >= 1 /\ k <= Len0(data)

SpecScan == InitScan /\ [][Next]_vars

\* ------------------------------------------------- the call made a second time
\* Locals of a call that is about to start.
Restarted ==
    /\ pc' = "called"
    /\ i' = 0
    /\ assignments' = EmptyVec
    /\ clusters' = EmptyVec
    /\ counts' = EmptyVec
    /\ sums' = EmptyVec
    /\ history1' = history
    /\ history' = <<>>
    /\ runNo' = 2
    /\ UNCHANGED <<seed, data, k, iterations, wrapped>>

\* a second context that takes over the generator of the first
FreshRunSharedRng ==
    /\ pc = "done"
    /\ runNo = 1
    /\ rng' = rng
    /\ fresh' = TRUE
    /\ Restarted

\* Context::new(seed) again, and the same call on the new context
FreshRun ==
    /\ pc = "done"
    /\ runNo = 1
    /\ rng' = seed_from_u64(seed)
    /\ fresh' = TRUE
    /\ Restarted

\* the same call a second time on the context of the first (k_means takes
\* &mut self: the generator goes on from where the first call left it)
SameContextRun ==
    /\ pc = "done"
    /\ runNo = 1
    /\ rng' = rng
    /\ fresh' = FALSE
    /\ Restarted

NextDet == Next \/ FreshRun \/ SameContextRun

\* the calls that are repeated: those on fewer than MaxPoints points
InitDet == Init /\ Len0(data) < MaxPoints

SpecDet == InitDet /\ [][NextDet]_vars

\* ------------------------------------- the accumulation loop on a large image
\* Lines 115-125 for one cluster index of a call with k = 1, where every point
\* is assigned to cluster 0.  The points come one at a time, or as a uniform
\* region of b * 65536 equal points, whose b * 65536 successive additions are
\* taken in one step: the wrapped sum of m equal addends v is sum + m * v
\* modulo 2^32, and some addition among them overflows exactly when
\* sum + m * v leaves the range.
InitAcc ==
    /\ seed = 0
    /\ rng = seed_from_u64(0)
    /\ data = EmptyVec
    /\ k = 1
    /\ iterations = 1
    /\ pc = "accumulate"
    /\ i = 0
    /\ assignments = EmptyVec
    /\ clusters \in [{0} -> Palette]
    /\ counts = [c \in {0} |-> ZeroCount]
    /\ sums = [c \in {0} |-> zero]
    /\ history = <<>>
    /\ runNo = 1
    /\ fresh = TRUE
    /\ history1 = <<>>
    /\ wrapped = FALSE

\* the accumulators after a step, in a build with (checked) or without
\* overflow checks
Accumulating(newCounts, newSums, overflows, checked) ==
    /\ IF overflows /\ checked
       THEN /\ pc' = "panicked"
            /\ UNCHANGED <<counts, sums, wrapped>>
       ELSE /\ counts' = newCounts
            /\ sums' = newSums
            /\ wrapped' = (wrapped \/ overflows)
            /\ pc' = "accumulate"
    /\ history' = Append(history, Entry("accumulate", clusters, assignments))
    /\ UNCHANGED <<seed, rng, data, k, iterations, i, assignments, clusters,
                   runNo, fresh, history1>>

\* lines 116-118, once
AccumulatePoint ==
    /\ pc = "accumulate"
    /\ Len(history) < MaxAccSteps
    /\ \E point \in Palette : \E checked \in BOOLEAN :
          Accumulating([counts EXCEPT ![0] = Increment(@)],
                       [sums EXCEPT ![0] = add(@, point)],
                       addOverflows(sums[0], point),
                       checked)

\* lines 116-118, b * 65536 times with the same point
AccumulateBlock ==
    /\ pc = "accumulate"
    /\ Len(history) < MaxAccSteps
    /\ \E point \in Palette : \E b \in BlockCounts : \E checked \in BOOLEAN :
          Accumulating(
              [counts EXCEPT ![0] = <<@[1] + b, @[2]>>],
              [sums EXCEPT ![0] = [c \in Channels |-> WrappingAdd(@[c], b * point[c], 0)]],
              \E c \in Channels : AddOverflows(sums[0][c], b * point[c], 0),
              checked)

\* lines 121-125 for cluster 0
Finalize ==
    /\ pc = "accumulate"
    /\ IF NonEmpty(counts[0]) /\ divPanics(counts[0])
       THEN /\ pc' = "panicked"
            /\ UNCHANGED clusters
       ELSE /\ pc' = "finalized"
            /\ clusters' = [clusters EXCEPT ![0] =
                              IF NonEmpty(counts[0]) THEN div(sums[0], counts[0]) ELSE @]
    /\ UNCHANGED <<seed, rng, data, k, iterations, i, assignments, counts, sums,
                   history, runNo, fresh, history1, wrapped>>

NextAcc == AccumulatePoint \/ AccumulateBlock \/ Finalize

SpecAcc == InitAcc /\ [][NextAcc]_vars

\* ================================================================ claims
\* the preconditions of k_means
ValidConfig == Len0(data) >= 1 /\ k >= 1 /\ k <= Len0(data)

\* between an update pass and what follows it
AfterUpdate == pc \in {"loop", "done"} /\ i >= 1

\* the points assigned to cluster c
Members(c) == {p \in DOMAIN data : assignments[p] = c}

\* the centers the last assignment pass has scanned
Scanned == history[Len(history) - 1].clusters

\* the lowest index among the centers at minimum distance
BruteForce(point, cl, kk) ==
    CHOOSE c \in 0..(kk - 1) : \A j \in 0..(kk - 1) :
        \/ distance(cl[c], point) < distance(cl[j], point)
        \/ distance(cl[c], point) = distance(cl[j], point) /\ c <= j

RECURSIVE SumOver(_, _)
SumOver(S, ch) ==
    IF S = {} THEN 0
    ELSE LET p == CHOOSE x \in S : TRUE
         IN data[p][ch] + SumOver(S \ {p}, ch)

Distinct == \A p, q \in DOMAIN data : data[p] = data[q] => p = q

IsPrefix(a, b) == Len(a) <= Len(b) /\ \A x \in 1..Len(a) : a[x] = b[x]

Kinds(h) == [x \in 1..Len(h) |-> h[x].kind]

RoundsLog(n) ==
    [x \in 1..(2 * n + 1) |->
        IF x = 1 THEN "seed" ELSE IF x % 2 = 0 THEN "assign" ELSE "update"]

\* round r (1-based) left every center and every assignment as it found them
IdleRound(r) ==
    /\ history[2 * r + 1].clusters = history[2 * r - 1].clusters
    /\ history[2 * r + 1].assignments = history[2 * r - 1].assignments

\* C1: a call with k = 0, k > len(points) or no points ends in an
\* invalid-configuration error before seeding: it never seeds, iterates,
\* returns a result or panics in a pass.
C1_InvalidConfigurationRejected == ~ValidConfig => pc = "called"

\* C2: after every assignment pass the index written for every point is the
\* brute-force one, the lowest index among the centers at minimum distance.
C2_PrunedScanIsBruteForce ==
    ValidConfig /\ pc = "update" =>
        \A p \in DOMAIN data : assignments[p] = BruteForce(data[p], clusters, k)

\* the centers the scan of one point prunes, each with the best index and
\* distance at that moment
RECURSIVE Pruned(_, _, _, _, _, _, _)
Pruned(point, cl, cd, kk, j, closest_idx, closest_dist) ==
    IF j >= kk THEN {}
    ELSE IF TooFar(cd[Min(closest_idx, j)][Max(closest_idx, j)], closest_dist)
         THEN {[j |-> j, idx |-> closest_idx, dist |-> closest_dist]}
                  \cup Pruned(point, cl, cd, kk, j + 1, closest_idx, closest_dist)
         ELSE IF distance(cl[j], point) < closest_dist
              THEN Pruned(point, cl, cd, kk, j + 1, j, distance(cl[j], point))
              ELSE Pruned(point, cl, cd, kk, j + 1, closest_idx, closest_dist)

\* a pass that has pruned a center for a point that is not on its best center,
\* after the best had moved off center 0
C2_Witness ==
    /\ k >= 1 /\ k <= Len0(data)
    /\ pc = "update"
    /\ \E p \in DOMAIN data :
          \E t \in Pruned(data[p], clusters, cluster_distances(clusters, k), k, 1, 0,
                           distance(clusters[0], data[p])) :
              t.idx >= 1 /\ t.dist > 0

\* C3: for a valid call there are k centers and len(points) assignments from
\* seeding on, every assignment is a cluster index in 0 .. k-1, and the call
\* does not panic.
C3_ShapesAndRange ==
    ValidConfig =>
        /\ pc # "panicked"
        /\ pc # "called" =>
              /\ DOMAIN clusters = 0..(k - 1)
              /\ Len0(clusters) = k
              /\ DOMAIN assignments = DOMAIN data
              /\ Len0(assignments) = Len0(data)
              /\ \A p \in DOMAIN assignments : assignments[p] \in 0..(k - 1)

\* a returned result that uses the highest of at least three cluster indices
C3_Witness ==
    /\ ValidConfig
    /\ pc = "done"
    /\ k >= 3
    /\ \E p \in DOMAIN data : assignments[p] = k - 1

\* C4: a cluster without points after an assignment pass keeps the center it
\* had before the update pass (its seeding point in round one), div is not
\* called with a zero count (no panic), and all k centers remain.
C4_EmptyClusterKeepsCenter ==
    ValidConfig =>
        /\ pc # "panicked"
        /\ AfterUpdate =>
              /\ DOMAIN clusters = 0..(k - 1)
              /\ \A c \in 0..(k - 1) :
                    Members(c) = {} =>
                        /\ clusters[c] = Scanned[c]
                        /\ i = 1 => clusters[c] = history[1].clusters[c]

\* an update pass has run with an empty cluster while another center moved
C4_Witness ==
    /\ ValidConfig
    /\ AfterUpdate
    /\ \E c \in 0..(k - 1) : Members(c) = {}
    /\ clusters # Scanned

\* every point is the only member of its cluster, and is its center
Singletons ==
    /\ \A p, q \in DOMAIN data : assignments[p] = assignments[q] => p = q
    /\ {assignments[p] : p \in DOMAIN data} = 0..(k - 1)
    /\ \A p \in DOMAIN data : clusters[assignments[p]] = data[p]

\* C5 as stated: with k = len(points) and at least one round, the result is
\* one singleton cluster per point, also when points are equal.
C5_SingletonsAlways ==
    Len0(data) >= 1 /\ k = Len0(data) /\ iterations >= 1 /\ pc = "done" => Singletons

\* C5 amended: the same for points that are pairwise different.
C5_SingletonsWhenDistinct ==
    Len0(data) >= 1 /\ k = Len0(data) /\ iterations >= 1 /\ pc = "done" /\ Distinct
        => Singletons

\* three or more different points returned as singletons in another order than
\* the input's
C5_Witness ==
    /\ Len0(data) >= 3
    /\ k = Len0(data)
    /\ iterations >= 1
    /\ pc = "done"
    /\ Distinct
    /\ \E p \in DOMAIN data : assignments[p] # p

C7_FixedBudget ==
    ValidConfig =>
        /\ pc \in {"called", "loop", "update", "done"}
        /\ pc # "called" => IsPrefix(Kinds(history), RoundsLog(iterations))
        /\ pc = "update" => Len(history) = 2 * i + 2
        /\ pc = "loop" => Len(history) = 2 * i + 1
        /\ pc = "done" =>
              /\ i = iterations
              /\ Kinds(history) = RoundsLog(iterations)
              /\ clusters = history[Len(history)].clusters
              /\ assignments = history[Len(history)].assignments

\* a call has returned after a round that followed a round that changed nothing
C7_Witness ==
    /\ ValidConfig
    /\ pc = "done"
    /\ k >= 2
    /\ \E r \in 1..(iterations - 1) : IdleRound(r)

\* the example of C8: the four colours, k = 2, seeded at black and white
Dark(point) == point \in {Black, NearBlack}

C8_Example ==
    /\ k = 2
    /\ Len0(data) = 4
    /\ {data[p] : p \in DOMAIN data} = {Black, NearBlack, NearWhite, White}
    /\ AfterUpdate
    /\ {history[1].clusters[0], history[1].clusters[1]} = {Black, White}

\* C8: after an update pass every channel of the center of a cluster with
\* members is the truncated mean of that channel over exactly its members; in
\* the example the centers are (0,0,0) and (255,255,254), the dark points
\* together and the light points together.
C8_TruncatedMean ==
    /\ ValidConfig /\ AfterUpdate =>
          \A c \in 0..(k - 1) :
              Members(c) # {} =>
                  \A ch \in Channels :
                      clusters[c][ch] = SumOver(Members(c), ch) \div Cardinality(Members(c))
    /\ C8_Example =>
          /\ \A c \in 0..1 :
                /\ history[1].clusters[c] = Black => clusters[c] = Black
                /\ history[1].clusters[c] = White => clusters[c] = NearWhite
          /\ \A p, q \in DOMAIN data :
                assignments[p] = assignments[q] <=> (Dark(data[p]) <=> Dark(data[q]))

\* the example has returned
C8_Witness == C8_Example /\ pc = "done"

\* C9: the u32 sums never leave their range (no wrap, no overflow panic), the
\* count is not changed by its narrowing to 32 bits, and a finalized channel
\* fits in 8 bits.
C9_AccumulatorNeverOverflows ==
    /\ pc # "panicked"
    /\ ~wrapped
    /\ \A c \in DOMAIN counts : AsU32(counts[c]) = counts[c]
    /\ pc = "finalized" => \A ch \in Channels : clusters[0][ch] \in 0..(U8Modulus - 1)

\* C10 as stated: in the returned pair every point is at least as close to its
\* assigned returned center as to every other returned center.
C10_NearestReturnedCenter ==
    ValidConfig /\ pc = "done" /\ iterations >= 1 =>
        \A p \in DOMAIN data : \A j \in 0..(k - 1) :
            distance(data[p], clusters[assignments[p]]) <= distance(data[p], clusters[j])

\* C10 amended: the same with respect to the centers the last assignment pass
\* has scanned, the ones before the last update pass.
C10_NearestScannedCenter ==
    ValidConfig /\ pc = "done" /\ iterations >= 1 =>
        \A p \in DOMAIN data : \A j \in 0..(k - 1) :
            distance(data[p], Scanned[assignments[p]]) <= distance(data[p], Scanned[j])

\* a returned pair where a point is closer to another returned center than to
\* its own
C10_Witness ==
    /\ ValidConfig
    /\ pc = "done"
    /\ iterations >= 1
    /\ \E p \in DOMAIN data : \E j \in 0..(k - 1) :
          distance(data[p], clusters[assignments[p]]) > distance(data[p], clusters[j])

====
